---- MODULE Spec2Model ----
(***************************************************************************)
(* Model of the extraction_metrics_rs crate: the script registry, the      *)
(* line sanitizer / document cleaner (cleaning_module.rs and the older     *)
(* lib.rs variant), and the badness scorer.                                *)
(*                                                                         *)
(* A text is a sequence of Unicode code points (Rust `char`s as naturals). *)
(***************************************************************************)
EXTENDS Integers, Sequences, FiniteSets, TLC

(***************************************************************************)
(* Bounds of the explored input space.                                     *)
(***************************************************************************)
MaxPieces == 3
MaxCodePoint == 11600

(***************************************************************************)
(* Characters.                                                             *)
(***************************************************************************)
TAB == 9
LF == 10
CR == 13
SP == 32
LT == 60
GT == 62

\* char::is_whitespace and the regex classes \s / \S: the Unicode White_Space property.
White_Space ==
    (9..13) \cup {32, 133, 160, 5760} \cup (8192..8202) \cup {8232, 8233, 8239, 8287, 12288}

is_whitespace(c) == c \in White_Space

\* The digits zero of the Unicode decimal digits (general category Nd, Unicode
\* 16 as compiled into the regex crate): each starts a run of ten digits,
\* DIGIT ZERO (48), ARABIC-INDIC DIGIT ZERO (1632) and so on.
decimal_digit_zeros ==
    {48, 1632, 1776, 1984, 2406, 2534, 2662, 2790, 2918, 3046, 3174, 3302, 3430,
     3558, 3664, 3792, 3872, 4160, 4240, 6112, 6160, 6470, 6608, 6784, 6800, 6992,
     7088, 7232, 7248, 42528, 43216, 43264, 43472, 43504, 43600, 44016, 65296,
     66720, 68912, 68928, 69734, 69872, 69942, 70096, 70384, 70736, 70864, 71248,
     71360, 71376, 71386, 71472, 71904, 72016, 72688, 72784, 73040, 73120, 73552,
     90416, 92768, 92864, 93008, 93552, 118000, 120782, 120792, 120802, 120812,
     120822, 123200, 123632, 124144, 124401, 125264, 130032}

\* The regex class \d, which the regex crate compiles as the Unicode decimal digits.
is_digit(c) == \E zero \in decimal_digit_zeros : c \in zero..(zero + 9)

(***************************************************************************)
(* Constants of the cleaner.                                               *)
(***************************************************************************)
\* "<!-- text-missing -->"
TEXT_MISSING_COMMENT ==
    <<60, 33, 45, 45, 32, 116, 101, 120, 116, 45, 109, 105, 115, 115, 105, 110, 103, 32, 45, 45, 62>>

MIN_CHARS_FOR_COMMENT == 5

\* "glyph", "<!--", "-->", "MS-Bold-", "&gt;"
GlyphStr == <<103, 108, 121, 112, 104>>
CommentOpen == <<60, 33, 45, 45>>
CommentClose == <<45, 45, 62>>
MsBoldStr == <<77, 83, 45, 66, 111, 108, 100, 45>>
GtEntity == <<38, 103, 116, 59>>


(***************************************************************************)
(* String primitives of the Rust standard library, on code-point sequences.*)
(***************************************************************************)
Tail_from(s, i) == SubSeq(s, i, Len(s))

\* s[i..] starts with p
starts_with_at(s, p, i) ==
    /\ i + Len(p) - 1 <= Len(s)
    /\ SubSeq(s, i, i + Len(p) - 1) = p

\* str::contains for a string pattern
contains(s, p) == \E i \in 1..(Len(s) + 1) : starts_with_at(s, p, i)

\* str::ends_with(char)
ends_with(s, c) == Len(s) > 0 /\ s[Len(s)] = c

\* index of the first occurrence of character c at or after position from, 0 if none
find_char(s, c, from) ==
    IF \E i \in from..Len(s) : s[i] = c
    THEN CHOOSE i \in from..Len(s) : s[i] = c /\ \A j \in from..(i - 1) : s[j] # c
    ELSE 0

\* index of the first occurrence of string p at or after position from, 0 if none
find_str(s, p, from) ==
    IF \E i \in from..Len(s) : starts_with_at(s, p, i)
    THEN CHOOSE i \in from..Len(s) :
            starts_with_at(s, p, i) /\ \A j \in from..(i - 1) : ~starts_with_at(s, p, j)
    ELSE 0

\* chars().filter(|c| !c.is_whitespace())
RECURSIVE non_whitespace(_)
non_whitespace(s) ==
    IF s = <<>> THEN <<>>
    ELSE IF is_whitespace(Head(s)) THEN non_whitespace(Tail(s))
         ELSE <<Head(s)>> \o non_whitespace(Tail(s))

\* chars().filter(|c| !c.is_whitespace()).count()
non_whitespace_count(s) == Cardinality({i \in 1..Len(s) : ~is_whitespace(s[i])})

\* line.chars().any(|c| !c.is_whitespace())
any_non_whitespace(s) == \E i \in 1..Len(s) : ~is_whitespace(s[i])

\* str::trim_end
trim_end(s) ==
    IF any_non_whitespace(s)
    THEN SubSeq(s, 1, CHOOSE i \in 1..Len(s) :
                        ~is_whitespace(s[i]) /\ \A j \in (i + 1)..Len(s) : is_whitespace(s[j]))
    ELSE <<>>

\* str::trim
trim(s) ==
    IF any_non_whitespace(s)
    THEN LET t == trim_end(s)
             b == CHOOSE i \in 1..Len(t) :
                        ~is_whitespace(t[i]) /\ \A j \in 1..(i - 1) : is_whitespace(t[j])
         IN SubSeq(t, b, Len(t))
    ELSE <<>>

\* str::trim_end_matches('\n')
RECURSIVE trim_end_matches_newline(_)
trim_end_matches_newline(s) ==
    IF ends_with(s, LF) THEN trim_end_matches_newline(SubSeq(s, 1, Len(s) - 1)) ELSE s

\* str::lines: split at "\n"; a line's "\n" is dropped, and a "\r" directly before that "\n" too.
\* A final line without "\n" is returned as it is (a bare trailing "\r" is kept).
strip_line_ending(piece) ==
    IF ends_with(piece, CR) THEN SubSeq(piece, 1, Len(piece) - 1) ELSE piece

RECURSIVE lines(_)
lines(text) ==
    IF text = <<>> THEN <<>>
    ELSE LET nl == find_char(text, LF, 1)
         IN IF nl = 0 THEN <<text>>
            ELSE <<strip_line_ending(SubSeq(text, 1, nl - 1))>> \o lines(Tail_from(text, nl + 1))

\* str::matches(p).count(): non-overlapping occurrences, left to right
RECURSIVE matches_count(_, _)
matches_count(s, p) ==
    LET i == find_str(s, p, 1)
    IN IF i = 0 THEN 0 ELSE 1 + matches_count(Tail_from(s, i + Len(p)), p)

(***************************************************************************)
(* Regular expressions of the cleaner.                                     *)
(***************************************************************************)
\* COMMENT_REGEX  <!--.*?-->  is_match: "<!--", then any characters but "\n", then "-->"
COMMENT_REGEX_is_match(s) ==
    \E i \in 1..Len(s) :
        /\ starts_with_at(s, CommentOpen, i)
        /\ \E j \in (i + 4)..Len(s) :
              /\ starts_with_at(s, CommentClose, j)
              /\ \A k \in (i + 4)..(j - 1) : s[k] # LF

\* ANY_TAG_CLEANING_REGEX  <[^>]*>  leftmost match at or after pos: [start, end], or <<0, 0>>
ANY_TAG_CLEANING_REGEX_find(s, pos) ==
    LET start == find_char(s, LT, pos)
        end == IF start = 0 THEN 0 ELSE find_char(s, GT, start + 1)
    IN IF end = 0 THEN <<0, 0>> ELSE <<start, end>>

\* GLYPH_WORD_REGEX  \S*glyph\S*  leftmost match at or after pos: the whole
\* whitespace-delimited token around the first "glyph", [start, end], or <<0, 0>>
GLYPH_WORD_REGEX_find(s, pos) ==
    LET g == find_str(s, GlyphStr, pos)
    IN IF g = 0 THEN <<0, 0>>
       ELSE LET start == CHOOSE i \in pos..g :
                            /\ \A j \in i..g : ~is_whitespace(s[j])
                            /\ (i = pos \/ is_whitespace(s[i - 1]))
                end == CHOOSE e \in g..Len(s) :
                            /\ \A j \in g..e : ~is_whitespace(s[j])
                            /\ (e = Len(s) \/ is_whitespace(s[e + 1]))
            IN <<start, end>>

\* FONT_LINE_REMOVAL_REGEX  MS-Bold-\d+&gt;  is_match
FONT_LINE_REMOVAL_REGEX_is_match(s) ==
    \E i \in 1..Len(s) :
        /\ starts_with_at(s, MsBoldStr, i)
        /\ \E j \in (i + Len(MsBoldStr) + 1)..Len(s) :
              /\ \A k \in (i + Len(MsBoldStr))..(j - 1) : is_digit(s[k])
              /\ starts_with_at(s, GtEntity, j)

(***************************************************************************)
(* Script registry (cleaning_module.rs SCRIPT_SETS).                       *)
(***************************************************************************)
latin_chars == (97..122) \cup (65..90)

accented_greek ==
    {940, 941, 942, 943, 972, 973, 974, 902, 904, 905, 906, 908, 910, 911, 970, 971, 938, 939, 912, 944}

greek_chars == (880..993) \cup (1008..1023) \cup accented_greek

french_specific ==
    {224, 226, 231, 233, 232, 234, 235, 238, 239, 244, 249, 251, 252, 255, 230, 339,
     192, 194, 199, 201, 200, 202, 203, 206, 207, 212, 217, 219, 220, 376, 198, 338, 171, 187}

spanish_specific ==
    {225, 233, 237, 243, 250, 252, 241, 193, 201, 205, 211, 218, 220, 209, 191, 161}

punctuation ==
    {46, 44, 59, 58, 33, 63, 40, 41, 91, 93, 123, 125, 39, 34, 38, 64, 35, 36, 37, 94,
     42, 95, 45, 43, 61, 124, 92, 60, 62, 47, 126, 96}

digits == 48..57

common_symbols == {8364, 163, 165, 169, 174, 8482, 176, 167}

\* Variant of unusual_latin1 that forgets to exclude the Spanish set.
unusual_latin1_with_spanish ==
    {c \in 128..255 : c \notin french_specific
                      /\ c \notin accented_greek /\ c \notin common_symbols
                      /\ c \notin punctuation}

\* Latin-1 Supplement, minus the curated sets.
unusual_latin1 ==
    {c \in 128..255 : c \notin french_specific /\ c \notin spanish_specific
                      /\ c \notin accented_greek /\ c \notin common_symbols
                      /\ c \notin punctuation}

\* Latin Extended-A, minus the curated French and Spanish sets.
unusual_latin_ext_a ==
    {c \in 256..383 : c \notin french_specific /\ c \notin spanish_specific}

unusual_chars ==
    unusual_latin1 \cup unusual_latin_ext_a
        \cup (384..591) \cup (592..687) \cup (7680..7935)
        \cup (994..1007) \cup (11392..11519)
        \cup (1024..1279) \cup (1280..1327)

ScriptKeys ==
    {"latin", "greek", "french", "spanish", "punctuation", "numbers", "common_symbols", "unusual"}

SCRIPT_SETS ==
    [k \in ScriptKeys |->
        CASE k = "latin" -> latin_chars
          [] k = "greek" -> greek_chars
          [] k = "french" -> french_specific
          [] k = "spanish" -> spanish_specific
          [] k = "punctuation" -> punctuation
          [] k = "numbers" -> digits
          [] k = "common_symbols" -> common_symbols
          [] k = "unusual" -> unusual_chars]

\* lib.rs registers the same sets under shorter keys.
LibScriptKeys == {"lat", "gre", "fra", "spa", "punct", "num", "sym", "unusual"}

lib_SCRIPT_SETS ==
    [k \in LibScriptKeys |->
        CASE k = "lat" -> latin_chars
          [] k = "gre" -> greek_chars
          [] k = "fra" -> french_specific
          [] k = "spa" -> spanish_specific
          [] k = "punct" -> punctuation
          [] k = "num" -> digits
          [] k = "sym" -> common_symbols
          [] k = "unusual" -> unusual_chars]

\* main.rs keeps its own sets.
GREEK_CHARS == (880..1023) \cup accented_greek

LATIN_CHARS == latin_chars

COMMON_ACCENTED_CHARS ==
    spanish_specific
        \cup {224, 232, 236, 242, 249, 226, 234, 238, 244, 251, 235, 239, 252, 255, 231,
              192, 200, 204, 210, 217, 194, 202, 206, 212, 219, 203, 207, 220, 376, 199, 171, 187}
        \cup common_symbols

UNUSUAL_CHARS ==
    {c \in 128..255 : c \notin COMMON_ACCENTED_CHARS}
        \cup {c \in 256..383 : c \notin COMMON_ACCENTED_CHARS}
        \cup (384..591) \cup (592..687) \cup (7680..7935)

\* list_available_scripts: every key except "unusual".
list_available_scripts == {k \in DOMAIN SCRIPT_SETS : k # "unusual"}

(***************************************************************************)
(* Line sanitizer (the body of the per-line loop of core_clean_text).      *)
(* Each pass yields the rewritten line and the non-whitespace characters   *)
(* it pushed to current_line_removed_chars_buffer.                         *)
(***************************************************************************)
\* 1. Tag handling: comments are kept, other tags removed.
RECURSIVE tag_handling_from(_, _)
tag_handling_from(line, last_pos) ==
    LET mat == ANY_TAG_CLEANING_REGEX_find(line, last_pos)
    IN IF mat[1] = 0
       THEN [out |-> Tail_from(line, last_pos), removed |-> <<>>]
       ELSE LET tag_content == SubSeq(line, mat[1], mat[2])
                before == SubSeq(line, last_pos, mat[1] - 1)
                rest == tag_handling_from(line, mat[2] + 1)
            IN IF COMMENT_REGEX_is_match(tag_content)
               THEN [out |-> before \o tag_content \o rest.out, removed |-> rest.removed]
               ELSE [out |-> before \o rest.out,
                     removed |-> non_whitespace(tag_content) \o rest.removed]

line_after_tag_handling(line) == tag_handling_from(line, 1)

\* 2. Glyph word removal.
RECURSIVE glyph_removal_from(_, _)
glyph_removal_from(s, last_pos) ==
    LET mat == GLYPH_WORD_REGEX_find(s, last_pos)
    IN IF mat[1] = 0
       THEN [out |-> Tail_from(s, last_pos), removed |-> <<>>]
       ELSE LET rest == glyph_removal_from(s, mat[2] + 1)
            IN [out |-> SubSeq(s, last_pos, mat[1] - 1) \o rest.out,
                removed |-> non_whitespace(SubSeq(s, mat[1], mat[2])) \o rest.removed]

line_after_glyph_removal(s) == glyph_removal_from(s, 1)

\* Variant of unusual_removal that drops only the non-whitespace characters.
unusual_removal_keep_whitespace(s, allowed_chars, unusual_chars_set) ==
    [out |-> SelectSeq(s, LAMBDA c : ~(c \in unusual_chars_set /\ c \notin allowed_chars
                                        /\ ~is_whitespace(c))),
     removed |-> SelectSeq(s, LAMBDA c : c \in unusual_chars_set /\ c \notin allowed_chars
                                           /\ ~is_whitespace(c))]

\* 3. Unusual character removal.
RECURSIVE unusual_removal(_, _, _)
unusual_removal(s, allowed_chars, unusual_chars_set) ==
    IF s = <<>> THEN [out |-> <<>>, removed |-> <<>>]
    ELSE LET ch == Head(s)
             rest == unusual_removal(Tail(s), allowed_chars, unusual_chars_set)
         IN IF ch \in unusual_chars_set /\ ch \notin allowed_chars
            THEN [out |-> rest.out,
                  removed |-> IF ~is_whitespace(ch) THEN <<ch>> \o rest.removed ELSE rest.removed]
            ELSE [out |-> <<ch>> \o rest.out, removed |-> rest.removed]

\* A pass applied to the line state: the segment it leaves and the removed
\* characters appended to current_line_removed_chars_buffer.
after_pass(buffer, pass) ==
    [processed_line_segment |-> pass.out,
     current_line_removed_chars_buffer |-> buffer \o pass.removed]

tag_pass(line) == after_pass(<<>>, line_after_tag_handling(line))

glyph_pass(st) ==
    after_pass(st.current_line_removed_chars_buffer,
               line_after_glyph_removal(st.processed_line_segment))

unusual_pass(st, allowed_chars, unusual_chars_set) ==
    after_pass(st.current_line_removed_chars_buffer,
               unusual_removal(st.processed_line_segment, allowed_chars, unusual_chars_set))

\* The three passes in order: processed_line_segment and current_line_removed_chars_buffer.
process_line(line, allowed_chars, unusual_chars_set) ==
    unusual_pass(glyph_pass(tag_pass(line)), allowed_chars, unusual_chars_set)

\* 4. Comment insertion logic: what is pushed to cleaned_output for the line
\* (before its "\n"), and whether TEXT_MISSING_COMMENT was pushed.
comment_insertion(line, processed_line_segment, removed_chars_on_line_for_comment_decision) ==
    IF trim(processed_line_segment) # <<>>
    THEN IF removed_chars_on_line_for_comment_decision >= MIN_CHARS_FOR_COMMENT
         THEN [out |-> trim_end(processed_line_segment) \o <<SP>> \o TEXT_MISSING_COMMENT,
               marker |-> TRUE]
         ELSE [out |-> processed_line_segment, marker |-> FALSE]
    ELSE IF removed_chars_on_line_for_comment_decision >= MIN_CHARS_FOR_COMMENT
            /\ any_non_whitespace(line)
         THEN [out |-> TEXT_MISSING_COMMENT, marker |-> TRUE]
         ELSE [out |-> processed_line_segment, marker |-> FALSE]

\* Font-based line removal test (cleaning_module.rs only).
font_line(line) == contains(line, MsBoldStr) /\ FONT_LINE_REMOVAL_REGEX_is_match(line)

\* One iteration of the loop of core_clean_text (cleaning_module.rs): the
\* text pushed for the line, whether TEXT_MISSING_COMMENT was pushed, whether
\* the font rule fired, and the number of characters the passes removed
\* (the passes do not run on a font line).
\* The record of a line the passes ran on.
line_record(line, p) ==
    comment_insertion(line, p.processed_line_segment,
                      Len(p.current_line_removed_chars_buffer))
        @@ [line |-> line, font |-> FALSE,
            removed |-> Len(p.current_line_removed_chars_buffer)]

clean_line(line, allowed_chars, unusual_chars_set) ==
    IF font_line(line)
    THEN [line |-> line, out |-> TEXT_MISSING_COMMENT, marker |-> TRUE, font |-> TRUE,
          removed |-> 0]
    ELSE line_record(line, process_line(line, allowed_chars, unusual_chars_set))

\* One iteration of the loop of _internal_core_clean_text_logic (lib.rs): no font rule.
lib_clean_line(line, allowed_chars) ==
    line_record(line, process_line(line, allowed_chars, lib_SCRIPT_SETS["unusual"]))

(***************************************************************************)
(* Document cleaner.                                                       *)
(***************************************************************************)
\* The loop over text.lines(): one record per line, in order.
clean_lines(text, allowed_chars, unusual_chars_set) ==
    LET ls == lines(text)
    IN [k \in 1..Len(ls) |-> clean_line(ls[k], allowed_chars, unusual_chars_set)]

lib_clean_lines(text, allowed_chars) ==
    LET ls == lines(text)
    IN [k \in 1..Len(ls) |-> lib_clean_line(ls[k], allowed_chars)]

\* cleaned_output after the loop: every line's text followed by "\n".
RECURSIVE cleaned_output_of(_)
cleaned_output_of(recs) ==
    IF recs = <<>> THEN <<>>
    ELSE Head(recs).out \o <<LF>> \o cleaned_output_of(Tail(recs))

\* Variant of finish_output that never trims the joined output.
finish_output_untrimmed(text, cleaned_output) == cleaned_output

\* The trailing-newline decision at the end of both cleaners.
finish_output(text, cleaned_output) ==
    IF text # <<>> /\ ends_with(text, LF)
    THEN cleaned_output
    ELSE trim_end_matches_newline(cleaned_output)

core_clean_text(text, allowed_chars, unusual_chars_set) ==
    finish_output(text, cleaned_output_of(clean_lines(text, allowed_chars, unusual_chars_set)))

internal_core_clean_text_logic(text, allowed_chars) ==
    finish_output(text, cleaned_output_of(lib_clean_lines(text, allowed_chars)))

(***************************************************************************)
(* Allow-list construction of the entry points.                            *)
(***************************************************************************)
\* Union of the registered sets of the keys of a list; keys not in the registry add nothing.
RECURSIVE extend_known(_, _)
extend_known(registry, keys) ==
    IF keys = <<>> THEN {}
    ELSE (IF Head(keys) \in DOMAIN registry THEN registry[Head(keys)] ELSE {})
            \cup extend_known(registry, Tail(keys))

list_contains(keys, k) == \E i \in 1..Len(keys) : keys[i] = k

always_included ==
    UNION {SCRIPT_SETS[k] : k \in {"punctuation", "numbers", "common_symbols"}}

\* cleaning_module.rs clean_text / analyze_text and directory_processor.rs
\* batch_clean_markdown_files: requested sets, the always-kept sets that were
\* not requested, and basic whitespace.
allowed_chars_of(scripts_to_keep) ==
    extend_known(SCRIPT_SETS, scripts_to_keep)
        \cup UNION {SCRIPT_SETS[k] : k \in {kk \in {"punctuation", "numbers", "common_symbols"} :
                                                ~list_contains(scripts_to_keep, kk)}}
        \cup {SP, TAB, LF}

\* directory_processor.rs generate_analysis_report_for_directory
base_allowed_chars(scripts_to_analyze) ==
    extend_known(SCRIPT_SETS, scripts_to_analyze) \cup always_included \cup {SP, TAB, LF}

\* lib.rs clean_text and process_directory_native: the requested sets only.
current_allowed_chars(scripts_to_keep) == extend_known(lib_SCRIPT_SETS, scripts_to_keep)

\* cleaning_module.rs clean_text
clean_text(text, scripts_to_keep) ==
    core_clean_text(text, allowed_chars_of(scripts_to_keep), SCRIPT_SETS["unusual"])

\* lib.rs clean_text
lib_clean_text(text, scripts_to_keep) ==
    internal_core_clean_text_logic(text, current_allowed_chars(scripts_to_keep))

(***************************************************************************)
(* Badness scorer (lib.rs analyze_text) and the slim analysis              *)
(* (cleaning_module.rs analyze_text).  An f64 quotient a / b is kept as    *)
(* the pair <<a, b>>.                                                      *)
(***************************************************************************)
\* Variant of saturating_sub that wraps below zero instead of saturating.
saturating_sub_plain(a, b) == a - b

\* usize::saturating_sub
saturating_sub(a, b) == IF a > b THEN a - b ELSE 0

count_in(s, charset) == Cardinality({i \in 1..Len(s) : ~is_whitespace(s[i]) /\ s[i] \in charset})

keys_of(keys) == {keys[i] : i \in 1..Len(keys)}

\* How often the inner loop over scripts_to_keep meets a key: a character of
\* the key's set is counted once for every occurrence of the key in the list.
occurrences(keys, k) == Cardinality({i \in 1..Len(keys) : keys[i] = k})

\* GLYPH_WORD_REGEX.find_iter(text).count()
RECURSIVE glyph_matches_from(_, _)
glyph_matches_from(s, pos) ==
    LET mat == GLYPH_WORD_REGEX_find(s, pos)
    IN IF mat[1] = 0 THEN 0 ELSE 1 + glyph_matches_from(s, mat[2] + 1)

\* lib.rs analyze_text, from the cleaning call on: the counts and the score.
analyze_text_counts(text, scripts_to_keep, cleaned_text) ==
    LET comment_length == Len(TEXT_MISSING_COMMENT)
        original_total_chars == Len(text)
        original_non_whitespace == non_whitespace_count(text)
        cleaned_total_chars == Len(cleaned_text)
        cleaned_non_whitespace == non_whitespace_count(cleaned_text)
        comment_count == matches_count(cleaned_text, TEXT_MISSING_COMMENT)
        comment_chars_added == comment_count * comment_length
        cleaned_adjusted == saturating_sub(cleaned_non_whitespace, comment_chars_added)
        bad_count == IF original_non_whitespace > cleaned_adjusted
                     THEN original_non_whitespace - cleaned_adjusted
                     ELSE 0
        good_count == saturating_sub(original_non_whitespace, bad_count)
        badness == IF original_non_whitespace > 0
                   THEN <<bad_count, original_non_whitespace>>
                   ELSE <<0, 1>>
        divisor == IF cleaned_non_whitespace > 0 THEN cleaned_non_whitespace ELSE 1
        script_percentages ==
            [k \in keys_of(scripts_to_keep) |->
                <<100 * (IF k \in DOMAIN lib_SCRIPT_SETS
                         THEN occurrences(scripts_to_keep, k)
                                  * count_in(cleaned_text, lib_SCRIPT_SETS[k])
                         ELSE 0),
                  divisor>>]
    IN [badness |-> badness,
        bad_count |-> bad_count,
        good_count |-> good_count,
        total_chars |-> original_total_chars,
        total_non_whitespace |-> original_non_whitespace,
        cleaned_chars |-> cleaned_total_chars,
        cleaned_non_whitespace |-> cleaned_non_whitespace,
        glyph_count |-> glyph_matches_from(text, 1),
        unusual_count |-> Cardinality({i \in 1..Len(text) : text[i] \in lib_SCRIPT_SETS["unusual"]}),
        comment_markers |-> comment_count,
        script_percentages |-> script_percentages]

\* lib.rs analyze_text
lib_analyze_text(text, scripts_to_keep) ==
    analyze_text_counts(text, scripts_to_keep, lib_clean_text(text, scripts_to_keep))

\* cleaning_module.rs perform_text_analysis, from the cleaning call on: the
\* SlimTextAnalysisResult.
slim_analysis_result(text, cleaned_text, calculate_specific_counts) ==
       [original_total_chars |-> Len(text),
        cleaned_total_chars |-> Len(cleaned_text),
        original_non_whitespace_chars |->
            IF calculate_specific_counts THEN <<non_whitespace_count(text)>> ELSE <<>>,
        greek_char_count |->
            IF calculate_specific_counts THEN <<count_in(text, SCRIPT_SETS["greek"])>> ELSE <<>>,
        latin_char_count |->
            IF calculate_specific_counts THEN <<count_in(text, SCRIPT_SETS["latin"])>> ELSE <<>>,
        cleaned_text_content |-> cleaned_text]

\* cleaning_module.rs perform_text_analysis; None is <<>>, Some(n) is <<n>>.
perform_text_analysis(text, allowed_chars_ref, unusual_chars_ref, calculate_specific_counts) ==
    slim_analysis_result(text, core_clean_text(text, allowed_chars_ref, unusual_chars_ref),
                         calculate_specific_counts)

\* cleaning_module.rs analyze_text, from the perform_text_analysis call on.
analysis_result_dict(text, scripts_to_keep, calculate_specific_counts, slim_result) ==
    LET total_chars_for_percentage ==
            IF slim_result.original_non_whitespace_chars = <<>> THEN 0
            ELSE slim_result.original_non_whitespace_chars[1]
    IN [original_total_chars |-> slim_result.original_total_chars,
        cleaned_total_chars |-> slim_result.cleaned_total_chars,
        removal_ratio_score |->
            IF slim_result.original_total_chars > 0
            THEN <<saturating_sub(slim_result.original_total_chars, slim_result.cleaned_total_chars),
                   slim_result.original_total_chars>>
            ELSE <<0, 1>>,
        retention_score |->
            IF slim_result.original_total_chars > 0
            THEN <<slim_result.cleaned_total_chars, slim_result.original_total_chars>>
            ELSE <<1, 1>>,
        greek_char_count |-> slim_result.greek_char_count,
        latin_char_count |-> slim_result.latin_char_count,
        original_non_whitespace_chars |-> slim_result.original_non_whitespace_chars,
        script_percentages |->
            IF calculate_specific_counts /\ scripts_to_keep # <<>>
               /\ slim_result.original_non_whitespace_chars # <<>>
               /\ total_chars_for_percentage > 0
            THEN [k \in keys_of(scripts_to_keep) \cap DOMAIN SCRIPT_SETS |->
                    <<100 * count_in(text, SCRIPT_SETS[k]), total_chars_for_percentage>>]
            ELSE <<>>]

\* cleaning_module.rs analyze_text
analyze_text(text, scripts_to_keep, calculate_specific_counts) ==
    analysis_result_dict(text, scripts_to_keep, calculate_specific_counts,
        perform_text_analysis(text, allowed_chars_of(scripts_to_keep),
                              SCRIPT_SETS["unusual"], calculate_specific_counts))

(***************************************************************************)
(* Inputs.                                                                 *)
(***************************************************************************)
\* Pieces a text is assembled from: "a", " ", "\n", "\r", "<", ">", "<!--",
\* "-->", "glyph", CYRILLIC ZHE (unusual), NO-BREAK SPACE (unusual whitespace),
\* and a font artifact "MS-Bold-1&gt;".
Pieces ==
    {<<97>>, <<SP>>, <<LF>>, <<CR>>, <<LT>>, <<GT>>, CommentOpen, CommentClose, GlyphStr,
     <<1046>>, <<160>>, MsBoldStr \o <<49>> \o GtEntity}

RECURSIVE TextsOf(_)
TextsOf(n) ==
    IF n = 0 THEN {<<>>}
    ELSE LET shorter == TextsOf(n - 1)
         IN shorter \cup {p \o t : p \in Pieces, t \in shorter}

Texts == TextsOf(MaxPieces)

\* Script-key lists of a caller: none, a key of each registry that the other
\* registry does not know, the key both know, and a key given twice.
KeyLists ==
    {<<>>, <<"punctuation", "lat">>, <<"unusual">>, <<"lat", "lat">>}

(***************************************************************************)
(* State: one call of an entry point on a text.                            *)
(***************************************************************************)
VARIABLES
    text,               \* the text handed to the entry point
    scripts_to_keep,    \* the requested script keys
    calculate_specific_counts,  \* the flag of cleaning_module.rs analyze_text
    pc,                 \* "call" before the entry point ran, else its name
    line_log,           \* per input line: what the cleaning loop did with it
    cleaned,            \* the cleaned text it computed
    result,             \* the metrics it returned (<<>> when it returns none)
    ch,                 \* the character of a registry lookup
    member_of,          \* the registry sets that contain ch
    scan_i,             \* table scan: the cursor i (0-based index into the lines)
    current_row_idx,    \* table scan: the cursor of the body-row loop
    separator_columns,  \* table scan: column count of the current separator
    total_tables_count, \* table scan: tables counted so far
    issues,             \* table scan: the TableIssue records pushed so far
    tables,             \* table scan: per counted table, the lines attributed to it
    batch,              \* batch: which orchestrator runs ("clean", "tables" or "native")
    md_files,           \* batch: the number of markdown files found
    thread_count,       \* batch: the number of workers of the pool
    step,               \* batch: per file, where its task stands
    by,                 \* batch: per file, the worker that runs its task
    gil,                \* batch: the thread holding the interpreter lock, <<>> when free
    holder,             \* batch: per counter mutex, the workers inside it
    loaded,             \* batch: per worker, the counter value it read under the mutex
    files_processed_count,  \* batch: the counter behind the first mutex
    files_error_count,  \* batch: the counter behind the second mutex
    outcome,            \* batch: per file, "ok" or "error" once its task decided
    counted             \* batch: per file, how many increments its task made

table_vars ==
    <<scan_i, current_row_idx, separator_columns, total_tables_count, issues, tables>>

batch_vars ==
    <<batch, md_files, thread_count, step, by, gil, holder, loaded, files_processed_count,
      files_error_count, outcome, counted>>

vars ==
    <<text, scripts_to_keep, calculate_specific_counts, pc, line_log, cleaned, result,
      ch, member_of, table_vars, batch_vars>>

\* No batch is running.
NoBatch ==
    /\ batch = "none"
    /\ md_files = 0
    /\ thread_count = 0
    /\ step = <<>>
    /\ by = <<>>
    /\ gil = <<>>
    /\ holder = <<>>
    /\ loaded = <<>>
    /\ files_processed_count = 0
    /\ files_error_count = 0
    /\ outcome = <<>>
    /\ counted = <<>>

\* No table scan has started.
NoTableScan ==
    /\ scan_i = 0
    /\ current_row_idx = 0
    /\ separator_columns = 0
    /\ total_tables_count = 0
    /\ issues = <<>>
    /\ tables = <<>>

Init ==
    /\ text \in Texts
    /\ scripts_to_keep \in KeyLists
    /\ calculate_specific_counts = FALSE
    /\ pc = "call"
    /\ line_log = <<>>
    /\ cleaned = <<>>
    /\ result = <<>>
    /\ ch = 0
    /\ member_of = {}
    /\ NoTableScan
    /\ NoBatch

\* Err(PyValueError::new_err(message)) returned to the caller.
PyValueError(message) == [error |-> "PyValueError", message |-> message]

\* cleaning_module.rs clean_text: core_clean_text pushes each line's output and
\* "\n" to cleaned_output and settles the trailing newline.
CleanText ==
    /\ pc = "call"
    /\ pc' = "clean_text"
    /\ line_log' = clean_lines(text, allowed_chars_of(scripts_to_keep), SCRIPT_SETS["unusual"])
    /\ cleaned' = finish_output(text, cleaned_output_of(line_log'))
    /\ result' = <<>>
    /\ UNCHANGED <<text, scripts_to_keep, calculate_specific_counts, ch, member_of>>
    /\ UNCHANGED table_vars
    /\ UNCHANGED batch_vars

\* lib.rs clean_text
LibCleanText ==
    /\ pc = "call"
    /\ pc' = "lib_clean_text"
    /\ line_log' = lib_clean_lines(text, current_allowed_chars(scripts_to_keep))
    /\ cleaned' = finish_output(text, cleaned_output_of(line_log'))
    /\ result' = <<>>
    /\ UNCHANGED <<text, scripts_to_keep, calculate_specific_counts, ch, member_of>>
    /\ UNCHANGED table_vars
    /\ UNCHANGED batch_vars

\* cleaning_module.rs analyze_text
AnalyzeText ==
    /\ pc = "call"
    /\ calculate_specific_counts' \in BOOLEAN
    /\ pc' = "analyze_text"
    /\ line_log' = clean_lines(text, allowed_chars_of(scripts_to_keep), SCRIPT_SETS["unusual"])
    /\ cleaned' = finish_output(text, cleaned_output_of(line_log'))
    /\ result' = analysis_result_dict(text, scripts_to_keep, calculate_specific_counts',
                     slim_analysis_result(text, cleaned', calculate_specific_counts'))
    /\ UNCHANGED <<text, scripts_to_keep, ch, member_of>>
    /\ UNCHANGED table_vars
    /\ UNCHANGED batch_vars

\* lib.rs analyze_text
LibAnalyzeText ==
    /\ pc = "call"
    /\ pc' = "lib_analyze_text"
    /\ line_log' = lib_clean_lines(text, current_allowed_chars(scripts_to_keep))
    /\ cleaned' = finish_output(text, cleaned_output_of(line_log'))
    /\ result' = analyze_text_counts(text, scripts_to_keep, cleaned')
    /\ UNCHANGED <<text, scripts_to_keep, calculate_specific_counts, ch, member_of>>
    /\ UNCHANGED table_vars
    /\ UNCHANGED batch_vars

\* The ways a call of lib.rs process_file ends: the input file cannot be read;
\* no output path is given and the analysis is returned; the parent directory
\* of the output path cannot be created; the cleaned file cannot be written;
\* the cleaned file is written and the analysis is returned.
process_file_ends ==
    {"read_failed", "analysed", "mkdir_failed", "write_failed", "written"}

\* What process_file returns when it ends in the way `end` with the analysis
\* `analysis` of the file's content.
process_file_returns(end, analysis) ==
    CASE end = "read_failed" -> PyValueError("Failed to read file")
      [] end = "mkdir_failed" -> PyValueError("Failed to create output directory")
      [] end = "write_failed" -> PyValueError("Failed to write cleaned file")
      [] OTHER -> analysis

\* lib.rs process_file on a file whose content is `text`: fs::read_to_string,
\* analyze_text, and with an output path clean_text, the creation of the
\* parent directory and fs::write.  `cleaned` is the text the call cleaned; it
\* is the content of the output file when pc = "process_file_written", and
\* no file is written otherwise.
ProcessFile ==
    /\ pc = "call"
    /\ LET log == lib_clean_lines(text, current_allowed_chars(scripts_to_keep))
           cleaned_text == finish_output(text, cleaned_output_of(log))
       IN \E end \in process_file_ends :
             /\ line_log' = IF end = "read_failed" THEN <<>> ELSE log
             /\ cleaned' = IF end = "read_failed" THEN <<>> ELSE cleaned_text
             /\ result' = process_file_returns(end,
                              analyze_text_counts(text, scripts_to_keep, cleaned_text))
             /\ pc' = CASE end = "analysed" -> "process_file"
                         [] end = "written" -> "process_file_written"
                         [] OTHER -> "process_file_failed"
    /\ UNCHANGED <<text, scripts_to_keep, calculate_specific_counts, ch, member_of>>
    /\ UNCHANGED table_vars
    /\ UNCHANGED batch_vars

Next ==
    \/ CleanText
    \/ LibCleanText
    \/ AnalyzeText
    \/ LibAnalyzeText
    \/ ProcessFile

Spec == Init /\ [][Next]_vars

\* The two clean_text entry points alone.
NextClean ==
    \/ CleanText
    \/ LibCleanText

SpecClean == Init /\ [][NextClean]_vars

\* Pieces of texts that hold an artifact in parts or the marker itself: "gly",
\* "ph", CYRILLIC ZHE (unusual), NO-BREAK SPACE (unusual whitespace), the
\* missing-text marker, "a", " ", "\n", and a font artifact numbered with
\* ARABIC-INDIC DIGIT ONE.
ArtifactPieces ==
    {SubSeq(GlyphStr, 1, 3), SubSeq(GlyphStr, 4, 5), <<1046>>, <<160>>,
     TEXT_MISSING_COMMENT, <<97>>, <<SP>>, <<LF>>, MsBoldStr \o <<1633>> \o GtEntity}

RECURSIVE ArtifactTextsOf(_)
ArtifactTextsOf(n) ==
    IF n = 0 THEN {<<>>}
    ELSE LET shorter == ArtifactTextsOf(n - 1)
         IN shorter \cup {p \o t : p \in ArtifactPieces, t \in shorter}

\* A call of an entry point on a text assembled from ArtifactPieces.
InitArtifacts ==
    /\ text \in ArtifactTextsOf(MaxPieces)
    /\ scripts_to_keep \in KeyLists
    /\ calculate_specific_counts = FALSE
    /\ pc = "call"
    /\ line_log = <<>>
    /\ cleaned = <<>>
    /\ result = <<>>
    /\ ch = 0
    /\ member_of = {}
    /\ NoTableScan
    /\ NoBatch

SpecArtifacts == InitArtifacts /\ [][Next]_vars


(***************************************************************************)
(* Registry lookups: which registered sets contain a character.            *)
(***************************************************************************)
CodePoints == 0..MaxCodePoint

\* main.rs: the four static sets by name.
MAIN_SETS ==
    [k \in {"GREEK_CHARS", "LATIN_CHARS", "COMMON_ACCENTED_CHARS", "UNUSUAL_CHARS"} |->
        CASE k = "GREEK_CHARS" -> GREEK_CHARS
          [] k = "LATIN_CHARS" -> LATIN_CHARS
          [] k = "COMMON_ACCENTED_CHARS" -> COMMON_ACCENTED_CHARS
          [] k = "UNUSUAL_CHARS" -> UNUSUAL_CHARS]

sets_containing(registry, c) == {k \in DOMAIN registry : c \in registry[k]}

InitRegistry ==
    /\ text = <<>>
    /\ scripts_to_keep = <<>>
    /\ calculate_specific_counts = FALSE
    /\ pc = "call"
    /\ line_log = <<>>
    /\ cleaned = <<>>
    /\ result = <<>>
    /\ ch = 0
    /\ member_of = {}
    /\ NoTableScan
    /\ NoBatch

Lookup(registry, name) ==
    /\ pc = "call"
    /\ \E c \in CodePoints :
          /\ ch' = c
          /\ member_of' = sets_containing(registry, c)
    /\ pc' = name
    /\ UNCHANGED <<text, scripts_to_keep, calculate_specific_counts, line_log, cleaned, result>>
    /\ UNCHANGED table_vars
    /\ UNCHANGED batch_vars

\* cleaning_module.rs SCRIPT_SETS
RegistryLookup == Lookup(SCRIPT_SETS, "lookup")

\* lib.rs SCRIPT_SETS
LibRegistryLookup == Lookup(lib_SCRIPT_SETS, "lib_lookup")

\* main.rs static sets
MainLookup == Lookup(MAIN_SETS, "main_lookup")

NextRegistry ==
    \/ RegistryLookup
    \/ LibRegistryLookup
    \/ MainLookup

SpecRegistry == InitRegistry /\ [][NextRegistry]_vars

(***************************************************************************)
(* Table structure validator (table_analysis_module.rs).                   *)
(***************************************************************************)
MaxLines == 4

PIPE == 124
DASH == 45
COLON == 58

\* The first position from pos on whose character is not in the class
\* (Len(s) + 1 when there is none): a greedy class* of a regex.
RECURSIVE skip_class(_, _, _)
skip_class(s, pos, class) ==
    IF pos <= Len(s) /\ s[pos] \in class THEN skip_class(s, pos + 1, class) ELSE pos

char_at(s, pos, c) == pos <= Len(s) /\ s[pos] = c

\* TABLE_SEPARATOR_REGEX: ^[\s]*\|[\s]*[-:]+[\s]*\|
TABLE_SEPARATOR_REGEX_is_match(line) ==
    LET bar == skip_class(line, 1, White_Space)
        cell == skip_class(line, bar + 1, White_Space)
        cell_end == skip_class(line, cell, {DASH, COLON})
    IN /\ char_at(line, bar, PIPE)
       /\ cell_end > cell
       /\ char_at(line, skip_class(line, cell_end, White_Space), PIPE)

\* TABLE_ROW_REGEX: ^[\s]*\|.*\|[\s]*$
TABLE_ROW_REGEX_is_match(line) ==
    LET bar == skip_class(line, 1, White_Space)
    IN /\ char_at(line, bar, PIPE)
       /\ \E last \in (bar + 1)..Len(line) :
             /\ line[last] = PIPE
             /\ \A j \in (bar + 1)..(last - 1) : line[j] # LF
             /\ \A j \in (last + 1)..Len(line) : is_whitespace(line[j])

\* count_table_columns
count_table_columns(row) ==
    LET trimmed == trim(row)
    IN IF trimmed # <<>> /\ Head(trimmed) = PIPE /\ trimmed[Len(trimmed)] = PIPE
       THEN IF Len(trimmed) = 1 THEN 0
            ELSE Cardinality({j \in 2..(Len(trimmed) - 1) : trimmed[j] = PIPE}) + 1
       ELSE 0

\* TableIssue::new; None is <<>>, Some(n) is <<n>>.
TableIssue(line_number, description, expected_columns, found_columns) ==
    [line_number |-> line_number, description |-> description,
     expected_columns |-> expected_columns, found_columns |-> found_columns]

HeaderMismatch == "Table header and separator column count mismatch"
NoHeader == "Table separator without header row"
RowMismatch == "Table row has inconsistent column count"

\* The 0-based k-th line of the document being scanned.
line_at(k) == lines(text)[k + 1]

\* Lines a document is assembled from: "a", "|a|", "|a|a|", "|-|", "|-|-|",
\* "|-|a", "|-|a|", " |:| " and "|---|".
TableLines ==
    {<<97>>, <<PIPE, 97, PIPE>>, <<PIPE, 97, PIPE, 97, PIPE>>, <<PIPE, DASH, PIPE>>,
     <<PIPE, DASH, PIPE, DASH, PIPE>>, <<PIPE, DASH, PIPE, 97>>,
     <<PIPE, DASH, PIPE, 97, PIPE>>, <<SP, PIPE, COLON, PIPE, SP>>,
     <<PIPE, DASH, DASH, DASH, PIPE>>}

\* The documents of at most n lines, joined with "\n".
RECURSIVE TableTextsOf(_)
TableTextsOf(n) ==
    IF n = 0 THEN {<<>>}
    ELSE LET shorter == TableTextsOf(n - 1)
         IN shorter \cup TableLines
                \cup {l \o <<LF>> \o t : l \in TableLines, t \in shorter \ {<<>>}}

\* core_detect_malformed_tables, before the loop.
InitTables ==
    /\ text \in TableTextsOf(MaxLines)
    /\ scripts_to_keep = <<>>
    /\ calculate_specific_counts = FALSE
    /\ pc = "scanning"
    /\ line_log = <<>>
    /\ cleaned = <<>>
    /\ result = <<>>
    /\ ch = 0
    /\ member_of = {}
    /\ NoTableScan
    /\ NoBatch

clean_vars ==
    <<text, scripts_to_keep, calculate_specific_counts, line_log, cleaned, ch, member_of>>

\* The outer loop on a line that is no separator: i += 1.
SkipLine ==
    /\ pc = "scanning"
    /\ scan_i < Len(lines(text))
    /\ ~TABLE_SEPARATOR_REGEX_is_match(line_at(scan_i))
    /\ scan_i' = scan_i + 1
    /\ UNCHANGED <<pc, result, current_row_idx, separator_columns, total_tables_count,
                   issues, tables>>
    /\ UNCHANGED clean_vars
    /\ UNCHANGED batch_vars

\* Variant of push that inserts the issue at the front of the list.
push_front(list, issue) == <<issue>> \o list

\* Vec::push
push(list, issue) == Append(list, issue)

\* Variant of has_header_row that takes any preceding line as the header.
has_header_row_any(k) == k > 0

\* header_row is Some: a line precedes the separator and matches TABLE_ROW_REGEX.
has_header_row(k) == k > 0 /\ TABLE_ROW_REGEX_is_match(line_at(k - 1))

\* Variant of header_issue_needed that only reports a header with fewer columns.
header_issue_needed_fewer(header_columns, sep_columns) == header_columns < sep_columns

\* The test on the header row: header_columns != separator_columns.
header_issue_needed(header_columns, sep_columns) == header_columns # sep_columns

\* The outer loop on a separator line: count the table, look for its header
\* row, push the header issue, and enter the body-row loop.
SeparatorLine ==
    /\ pc = "scanning"
    /\ scan_i < Len(lines(text))
    /\ TABLE_SEPARATOR_REGEX_is_match(line_at(scan_i))
    /\ total_tables_count' = total_tables_count + 1
    /\ separator_columns' = count_table_columns(line_at(scan_i))
    /\ IF has_header_row(scan_i)
       THEN /\ issues' =
                  IF header_issue_needed(count_table_columns(line_at(scan_i - 1)),
                                         separator_columns')
                  THEN push(issues,
                              TableIssue(scan_i + 1, HeaderMismatch,
                                         <<count_table_columns(line_at(scan_i - 1))>>,
                                         <<separator_columns'>>))
                  ELSE issues
            /\ tables' = Append(tables, [separator |-> scan_i + 1, header |-> scan_i,
                                         rows |-> {}])
       ELSE /\ issues' = push(issues,
                                TableIssue(scan_i + 1, NoHeader, <<>>, <<separator_columns'>>))
            /\ tables' = Append(tables, [separator |-> scan_i + 1, header |-> 0,
                                         rows |-> {}])
    /\ current_row_idx' = scan_i + 1
    /\ pc' = "in_table"
    /\ UNCHANGED <<scan_i, result>>
    /\ UNCHANGED clean_vars
    /\ UNCHANGED batch_vars

\* Variant of row_issue_needed without the separator_columns > 0 test.
row_issue_needed_any(sep_columns, row_columns) == row_columns # sep_columns

\* The test of the body-row loop: only report when separator_columns is determined.
row_issue_needed(sep_columns, row_columns) ==
    sep_columns > 0 /\ row_columns # sep_columns

\* One iteration of the body-row loop.
BodyRow ==
    /\ pc = "in_table"
    /\ current_row_idx < Len(lines(text))
    /\ TABLE_ROW_REGEX_is_match(line_at(current_row_idx))
    /\ issues' =
          IF row_issue_needed(separator_columns,
                              count_table_columns(line_at(current_row_idx)))
          THEN push(issues,
                      TableIssue(current_row_idx + 1, RowMismatch, <<separator_columns>>,
                                 <<count_table_columns(line_at(current_row_idx))>>))
          ELSE issues
    /\ tables' = [tables EXCEPT ![Len(tables)].rows = @ \cup {current_row_idx + 1}]
    /\ current_row_idx' = current_row_idx + 1
    /\ UNCHANGED <<pc, result, scan_i, separator_columns, total_tables_count>>
    /\ UNCHANGED clean_vars
    /\ UNCHANGED batch_vars

\* Variant of next_scan_index that scans the body rows again.
next_scan_index_rescan(k, row_idx) == k + 1

\* Where the outer loop continues after a table: i = current_row_idx - 1, then i += 1.
next_scan_index(k, row_idx) == (row_idx - 1) + 1

\* The body-row loop ends and the outer loop continues after the table.
EndOfTable ==
    /\ pc = "in_table"
    /\ ~(current_row_idx < Len(lines(text))
          /\ TABLE_ROW_REGEX_is_match(line_at(current_row_idx)))
    /\ scan_i' = next_scan_index(scan_i, current_row_idx)
    /\ pc' = "scanning"
    /\ UNCHANGED <<result, current_row_idx, separator_columns, total_tables_count, issues,
                   tables>>
    /\ UNCHANGED clean_vars
    /\ UNCHANGED batch_vars

\* The outer loop ends: Ok(TableScan { total_tables, issues }).
ReturnTableScan ==
    /\ pc = "scanning"
    /\ ~(scan_i < Len(lines(text)))
    /\ result' = [total_tables |-> total_tables_count, issues |-> issues]
    /\ pc' = "scanned"
    /\ UNCHANGED table_vars
    /\ UNCHANGED clean_vars
    /\ UNCHANGED batch_vars

\* lib.rs detect_malformed_tables tests a line for the substring "|---"
\* (a line holding "|------" holds it too).
looks_like_separator(line) == contains(line, <<PIPE, DASH, DASH, DASH>>)

NaiveCheck == "Potential table separator found (naive check)"

\* The issues lib.rs detect_malformed_tables pushes for the lines from the
\* k-th on: one per line that looks like a separator, without column counts.
RECURSIVE naive_issues(_, _)
naive_issues(all_lines, k) ==
    IF k > Len(all_lines) THEN <<>>
    ELSE (IF looks_like_separator(all_lines[k])
          THEN <<TableIssue(k, NaiveCheck, <<>>, <<>>)>>
          ELSE <<>>) \o naive_issues(all_lines, k + 1)

\* lib.rs detect_malformed_tables, the function of that name the lib.rs module
\* exports: it identifies no table and returns the list of its issues.
LibDetectMalformedTables ==
    /\ pc = "scanning"
    /\ scan_i = 0
    /\ result' = naive_issues(lines(text), 1)
    /\ pc' = "lib_scanned"
    /\ UNCHANGED table_vars
    /\ UNCHANGED clean_vars
    /\ UNCHANGED batch_vars

NextTables ==
    \/ LibDetectMalformedTables
    \/ SkipLine
    \/ SeparatorLine
    \/ BodyRow
    \/ EndOfTable
    \/ ReturnTableScan

SpecTables == InitTables /\ [][NextTables]_vars

(***************************************************************************)
(* Batch orchestrator: process_directory_core (directory_processor.rs),    *)
(* run by batch_clean_markdown_files ("clean") and                         *)
(* batch_analyze_tables_in_files ("tables"), and process_directory_native  *)
(* of lib.rs ("native").  One task per markdown file, run by the workers   *)
(* of the pool; the calling thread holds the interpreter lock on entry.    *)
(* generate_analysis_report_for_directory of directory_processor.rs runs a *)
(* batch of its own, without counters, that ends in a CSV report; it is    *)
(* called without ("report") or with ("report_cleaned") a directory for    *)
(* the cleaned files.                                                      *)
(* A call ends with its result (pc = "batch_done") or with an error        *)
(* returned to the caller (pc = "batch_failed").                           *)
(***************************************************************************)
MaxFiles == 3
MaxWorkers == 2

\* The calling thread; the workers are 1..thread_count.
MainThread == 0

Files == 1..md_files
Workers == 1..thread_count

\* process_directory_core releases the interpreter lock around the pool and
\* its tasks take it for the operation; lib.rs process_directory_native does neither.
UsesGil == batch \in {"clean", "tables"}

\* generate_analysis_report_for_directory: the report batch.
Reports == batch \in {"report", "report_cleaned"}

\* py.allow_threads around the pool: process_directory_core and the report batch.
ReleasesGil == UsesGil \/ Reports

\* The batches that keep the two counters; the report batch collects one
\* FileReportData per file instead.
Counts == batch \in {"clean", "tables", "native"}

\* The batches that write a cleaned file per markdown file.
WritesCleanedFiles == batch \in {"clean", "native", "report_cleaned"}

\* Where a task goes once its file is settled: to the increment of the
\* counter, or, in the report batch, to its end with the file's record.
after_success == IF Counts THEN "count_processed" ELSE "done"
after_failure == IF Counts THEN "count_error" ELSE "done"

\* Where a task goes once it has read its file.
after_read ==
    IF UsesGil THEN "want_gil" ELSE IF WritesCleanedFiles THEN "mkdir" ELSE "done"

\* Ok(value) returned to the caller; Ok(()) is Ok(<<>>).
Ok(value) == [ok |-> value]

\* A worker runs one task at a time.
busy(w) == \E f \in Files : by[f] = w /\ step[f] \notin {"pending", "done"}

\* Mutex::lock returns when no other thread is inside.
mutex_available(inside) == inside = {}

\* The call is made.  md_files is the number of markdown files the walk of
\* the input path finds if the call gets that far, thread_count the size the
\* pool is asked for (num_threads, or the default parallelism when it is 0).
InitBatch ==
    /\ batch \in {"clean", "tables", "native", "report", "report_cleaned"}
    /\ md_files \in 0..MaxFiles
    /\ thread_count \in 1..MaxWorkers
    /\ step = [f \in 1..md_files |-> "pending"]
    /\ by = [f \in 1..md_files |-> 0]
    /\ gil = <<MainThread>>
    /\ holder = [m \in {"processed", "error"} |-> {}]
    /\ loaded = [w \in 1..thread_count |-> 0]
    /\ files_processed_count = 0
    /\ files_error_count = 0
    /\ outcome = [f \in 1..md_files |-> "none"]
    /\ counted = [f \in 1..md_files |-> 0]
    /\ pc = "batch_call"
    /\ result = <<>>
    /\ text = <<>>
    /\ scripts_to_keep = <<>>
    /\ calculate_specific_counts = FALSE
    /\ line_log = <<>>
    /\ cleaned = <<>>
    /\ ch = 0
    /\ member_of = {}
    /\ NoTableScan

\* The output directory the variant is given: batch_analyze_tables_in_files
\* passes None, batch_clean_markdown_files and process_directory_native a path.
HasOutputDir == batch \in {"clean", "native"}

\* The checks on the two paths that end the call with an error: the input
\* path is not a directory; the output path does not exist and
\* fs::create_dir_all fails; the output path exists and is not a directory.
\* The report batch creates the parent directory of its CSV file instead.
entry_errors ==
    {"Input path is not a directory"}
      \cup (IF HasOutputDir
               THEN {"Failed to create output directory",
                     "Output path exists but is not a directory"}
               ELSE {})
      \cup (IF Reports THEN {"Failed to create output directory"} ELSE {})

\* One of the entry checks fails: the call returns the error, no file is
\* collected or taken, no summary is built.
EntryError ==
    /\ pc = "batch_call"
    /\ \E message \in entry_errors : result' = PyValueError(message)
    /\ pc' = "batch_failed"
    /\ UNCHANGED batch_vars
    /\ UNCHANGED <<clean_vars, table_vars>>

\* batch_analyze_tables_in_files adds an empty detailed_results dictionary to
\* the summary process_directory_core returned; the other variants return
\* the summary as it is.
with_detailed_results(summary) ==
    IF batch = "tables" THEN summary @@ [detailed_results |-> <<>>] ELSE summary

\* format!: a text with the values that fill its placeholders.
format(template, values) == [template |-> template, values |-> values]

\* The summary of a directory without markdown files.
no_files_summary ==
    [status |-> "success",
     message |-> format("No markdown files found in input directory.", <<>>),
     files_processed |-> 0]

\* The summary built from the two counters; process_directory_native words
\* the status and the message differently.
final_summary(processed, errors, found) ==
    [status |-> IF UsesGil THEN "completed" ELSE "success",
     message |-> IF UsesGil
                   THEN format("Operation completed on {} files. Errors on {} files.",
                               <<processed, errors>>)
                   ELSE format("Processed {} files. Errors on {} files.",
                               <<processed, errors>>),
     files_processed |-> processed,
     files_with_errors |-> errors,
     total_files_found |-> found]

\* The call returned `returned`: an error or its result.
returns(returned) ==
    /\ result' = returned
    /\ pc' = IF "error" \in DOMAIN returned THEN "batch_failed" ELSE "batch_done"

\* What a call on a directory without markdown files returns: the early
\* summary, or, from the report batch, Ok(()) once the CSV header is written
\* and an error when the CSV file cannot be created, written or flushed.
no_files_results ==
    IF Reports
    THEN {Ok(<<>>), PyValueError("Failed to create CSV writer"),
          PyValueError("Failed to write CSV header"),
          PyValueError("Failed to flush CSV writer")}
    ELSE {with_detailed_results(no_files_summary)}

\* What a call returns after its parallel loop: the summary built from the
\* counters, or, from the report batch, Ok(()) once the CSV report is written
\* and an error when the CSV file cannot be created, written or flushed.
final_results ==
    IF Reports
    THEN {Ok(<<>>), PyValueError("Failed to create CSV writer"),
          PyValueError("CSV header write error"), PyValueError("CSV row write error"),
          PyValueError("CSV flush error")}
    ELSE {with_detailed_results(
              final_summary(files_processed_count, files_error_count, md_files))}

\* md_files.is_empty(): the early return.
NoMarkdownFiles ==
    /\ pc = "batch_call"
    /\ md_files = 0
    /\ \E returned \in no_files_results : returns(returned)
    /\ UNCHANGED batch_vars
    /\ UNCHANGED <<clean_vars, table_vars>>

\* ThreadPoolBuilder::build fails: the call returns the error with the
\* collected files untouched.
PoolBuildError ==
    /\ pc = "batch_call"
    /\ md_files > 0
    /\ result' = PyValueError("Failed to build thread pool")
    /\ pc' = "batch_failed"
    /\ UNCHANGED batch_vars
    /\ UNCHANGED <<clean_vars, table_vars>>

\* Variant of allow_threads that keeps the interpreter lock with the caller.
allow_threads_kept(g) == g

\* py.allow_threads: the calling thread gives up the interpreter lock for the
\* duration of the closure.
allow_threads(g) == <<>>

\* The entry checks pass, files are found and the pool is built: the parallel
\* loop starts; process_directory_core and the report batch release the
\* interpreter lock first (py.allow_threads).
StartPool ==
    /\ pc = "batch_call"
    /\ md_files > 0
    /\ gil' = IF ReleasesGil THEN allow_threads(gil) ELSE gil
    /\ pc' = "pool_running"
    /\ UNCHANGED <<batch, md_files, thread_count, step, by, holder, loaded,
                   files_processed_count, files_error_count, outcome, counted>>
    /\ UNCHANGED <<result, clean_vars, table_vars>>

\* A task moves to a step; the rest of the batch state stays.
goes(f, to) == step' = [step EXCEPT ![f] = to]

\* A task decides how its file is counted.
decides(f, how, to) ==
    /\ goes(f, to)
    /\ outcome' = [outcome EXCEPT ![f] = how]

\* par_iter().for_each: an idle worker takes a file.
TakeFile ==
    /\ pc = "pool_running"
    /\ \E w \in Workers, f \in Files :
          /\ ~busy(w)
          /\ step[f] = "pending"
          /\ goes(f, "read")
          /\ by' = [by EXCEPT ![f] = w]
    /\ UNCHANGED <<batch, md_files, thread_count, gil, holder, loaded,
                   files_processed_count, files_error_count, outcome, counted>>
    /\ UNCHANGED <<pc, result, clean_vars, table_vars>>

\* fs::read_to_string
ReadFile ==
    /\ \E f \in Files :
          /\ step[f] = "read"
          /\ \/ IF after_read = "done"
                THEN decides(f, "ok", "done")
                ELSE goes(f, after_read) /\ UNCHANGED outcome
             \/ decides(f, "error", after_failure)
    /\ UNCHANGED <<batch, md_files, thread_count, by, gil, holder, loaded,
                   files_processed_count, files_error_count, counted>>
    /\ UNCHANGED <<pc, result, clean_vars, table_vars>>

\* Python::with_gil: the task waits for the interpreter lock.
AcquireGil ==
    /\ \E f \in Files :
          /\ step[f] = "want_gil"
          /\ gil = <<>>
          /\ gil' = <<by[f]>>
          /\ goes(f, "operate")
    /\ UNCHANGED <<batch, md_files, thread_count, by, holder, loaded,
                   files_processed_count, files_error_count, outcome, counted>>
    /\ UNCHANGED <<pc, result, clean_vars, table_vars>>

\* file_operation: the cleaning operation returns Content, written to the
\* output directory; the table operation returns TableIssues, Empty or an error.
Operate ==
    /\ \E f \in Files :
          /\ step[f] = "operate"
          /\ \/ batch = "clean" /\ goes(f, "mkdir") /\ UNCHANGED outcome
             \/ batch = "tables" /\ decides(f, "ok", "count_processed")
             \/ batch = "tables" /\ decides(f, "error", "count_error")
    /\ UNCHANGED <<batch, md_files, thread_count, by, gil, holder, loaded,
                   files_processed_count, files_error_count, counted>>
    /\ UNCHANGED <<pc, result, clean_vars, table_vars>>

\* The parent directory of the target exists or fs::create_dir_all is tried.
CreateParentDir ==
    /\ \E f \in Files :
          /\ step[f] = "mkdir"
          /\ \/ goes(f, "write") /\ UNCHANGED outcome
             \/ decides(f, "error", after_failure)
    /\ UNCHANGED <<batch, md_files, thread_count, by, gil, holder, loaded,
                   files_processed_count, files_error_count, counted>>
    /\ UNCHANGED <<pc, result, clean_vars, table_vars>>

\* fs::write
WriteFile ==
    /\ \E f \in Files :
          /\ step[f] = "write"
          /\ \/ decides(f, "ok", after_success)
             \/ decides(f, "error", after_failure)
    /\ UNCHANGED <<batch, md_files, thread_count, by, gil, holder, loaded,
                   files_processed_count, files_error_count, counted>>
    /\ UNCHANGED <<pc, result, clean_vars, table_vars>>

\* *counter.lock().unwrap() += 1, first half: lock the mutex and read the counter.
LockCounter ==
    /\ \E f \in Files :
          \/ /\ step[f] = "count_processed"
             /\ mutex_available(holder["processed"])
             /\ holder' = [holder EXCEPT !["processed"] = @ \cup {by[f]}]
             /\ loaded' = [loaded EXCEPT ![by[f]] = files_processed_count]
             /\ goes(f, "locked_processed")
          \/ /\ step[f] = "count_error"
             /\ mutex_available(holder["error"])
             /\ holder' = [holder EXCEPT !["error"] = @ \cup {by[f]}]
             /\ loaded' = [loaded EXCEPT ![by[f]] = files_error_count]
             /\ goes(f, "locked_error")
    /\ UNCHANGED <<batch, md_files, thread_count, by, gil, files_processed_count,
                   files_error_count, outcome, counted>>
    /\ UNCHANGED <<pc, result, clean_vars, table_vars>>

\* Second half: write the counter and drop the guard.  The task then leaves
\* the with_gil closure if it is inside one, else it is finished.
IncrementCounter ==
    /\ \E f \in Files :
          /\ \/ /\ step[f] = "locked_processed"
                /\ files_processed_count' = loaded[by[f]] + 1
                /\ holder' = [holder EXCEPT !["processed"] = @ \ {by[f]}]
                /\ UNCHANGED files_error_count
             \/ /\ step[f] = "locked_error"
                /\ files_error_count' = loaded[by[f]] + 1
                /\ holder' = [holder EXCEPT !["error"] = @ \ {by[f]}]
                /\ UNCHANGED files_processed_count
          /\ counted' = [counted EXCEPT ![f] = @ + 1]
          /\ goes(f, IF gil = <<by[f]>> THEN "release_gil" ELSE "done")
    /\ UNCHANGED <<batch, md_files, thread_count, by, gil, loaded, outcome>>
    /\ UNCHANGED <<pc, result, clean_vars, table_vars>>

\* The with_gil closure returns.
ReleaseGil ==
    /\ \E f \in Files :
          /\ step[f] = "release_gil"
          /\ gil' = <<>>
          /\ goes(f, "done")
    /\ UNCHANGED <<batch, md_files, thread_count, by, holder, loaded,
                   files_processed_count, files_error_count, outcome, counted>>
    /\ UNCHANGED <<pc, result, clean_vars, table_vars>>

\* The parallel loop returned: the calling thread holds the interpreter lock
\* again and builds the summary from the two counters, or, in the report
\* batch, writes the CSV report from the collected records.
FinishBatch ==
    /\ pc = "pool_running"
    /\ \A f \in Files : step[f] = "done"
    /\ ReleasesGil => gil = <<>>
    /\ gil' = <<MainThread>>
    /\ \E returned \in final_results : returns(returned)
    /\ UNCHANGED <<batch, md_files, thread_count, step, by, holder, loaded,
                   files_processed_count, files_error_count, outcome, counted>>
    /\ UNCHANGED <<clean_vars, table_vars>>

NextBatch ==
    \/ EntryError
    \/ NoMarkdownFiles
    \/ PoolBuildError
    \/ StartPool
    \/ TakeFile
    \/ ReadFile
    \/ AcquireGil
    \/ Operate
    \/ CreateParentDir
    \/ WriteFile
    \/ LockCounter
    \/ IncrementCounter
    \/ ReleaseGil
    \/ FinishBatch

SpecBatch == InitBatch /\ [][NextBatch]_vars

\* The operating system schedules every thread that can run, and the
\* interpreter lock and the mutexes are granted when free: some enabled step
\* of the batch is eventually taken.
\* The largest directory the runs under fair scheduling are followed on.
MaxFilesFair == 2

\* process_directory_core is called: for cleaning or for table analysis.
InitBatchCore == InitBatch /\ UsesGil /\ md_files <= MaxFilesFair

FairSpecBatch == InitBatchCore /\ [][NextBatch]_vars /\ WF_vars(NextBatch)

(***************************************************************************)
(* Properties.                                                             *)
(***************************************************************************)
\* lib.rs process_file returned the analysis of the file's content.
FileProcessed == pc \in {"process_file", "process_file_written"}

\* An entry point has cleaned the text.
Cleaned ==
    \/ pc \in {"clean_text", "lib_clean_text", "analyze_text", "lib_analyze_text"}
    \/ FileProcessed

\* The AllowedCharSet the entry point that ran built from its script keys.
allowed ==
    IF pc \in {"clean_text", "analyze_text"}
    THEN allowed_chars_of(scripts_to_keep)
    ELSE current_allowed_chars(scripts_to_keep)

\* The unusual set the entry point that ran cleans with.
unusual_of_call ==
    IF pc \in {"clean_text", "analyze_text"} THEN SCRIPT_SETS["unusual"] ELSE lib_SCRIPT_SETS["unusual"]

\* The cleaner of the entry point that ran, applied to another text with the same sets.
clean_again(t) ==
    IF pc \in {"clean_text", "analyze_text"}
    THEN core_clean_text(t, allowed, SCRIPT_SETS["unusual"])
    ELSE internal_core_clean_text_logic(t, allowed)

clean_lines_again(t) ==
    IF pc \in {"clean_text", "analyze_text"}
    THEN clean_lines(t, allowed, SCRIPT_SETS["unusual"])
    ELSE lib_clean_lines(t, allowed)

\* The newline-separated pieces of a text: n newlines separate n + 1 pieces.
RECURSIVE split_newline(_)
split_newline(s) ==
    LET nl == find_char(s, LF, 1)
    IN IF nl = 0 THEN <<s>>
       ELSE <<SubSeq(s, 1, nl - 1)>> \o split_newline(Tail_from(s, nl + 1))

\* The HTML comments of a line: from each "<!--" to the first "-->" after it.
comment_spans(line) ==
    {SubSeq(line, ij[1], ij[2] + 2) :
        ij \in {x \in (1..Len(line)) \X (1..Len(line)) :
                    /\ starts_with_at(line, CommentOpen, x[1])
                    /\ x[2] >= x[1] + 4
                    /\ starts_with_at(line, CommentClose, x[2])
                    /\ \A j \in (x[1] + 4)..(x[2] - 1) : ~starts_with_at(line, CommentClose, j)}}

\* C1: the cleaned text ends with a newline exactly when the input text is
\* non-empty and ends with a newline, also when the last line became the marker.
C1_TrailingNewlineFidelity ==
    Cleaned => (ends_with(cleaned, LF) <=> (text # <<>> /\ ends_with(text, LF)))

C1_Witness ==
    /\ pc = "clean_text"
    /\ ends_with(text, LF)
    /\ line_log # <<>>
    /\ line_log[Len(line_log)].out = TEXT_MISSING_COMMENT
    /\ line_log[Len(line_log)].marker
    /\ ends_with(cleaned, LF)

\* C2: the cleaned text has as many newline-separated lines as the input and
\* its k-th line is the sanitizer's result for the k-th input line.
C2_LineStructurePreserved ==
    Cleaned =>
        LET out_lines == split_newline(cleaned)
        IN /\ Len(out_lines) = Len(split_newline(text))
           /\ \A k \in 1..Len(line_log) : out_lines[k] = line_log[k].out

\* C3 as claimed: a line gets a newly inserted marker exactly when the three
\* passes remove at least 5 non-whitespace characters from it.
C3_MarkerIffFiveRemoved ==
    Cleaned =>
        \A k \in 1..Len(line_log) :
            line_log[k].marker <=>
                Len(process_line(line_log[k].line, allowed, unusual_of_call)
                        .current_line_removed_chars_buffer) >= 5

\* C4: every HTML comment of an input line appears unchanged in the cleaned line.
C4_CommentsPreserved ==
    Cleaned =>
        \A k \in 1..Len(line_log) :
            \A span \in comment_spans(line_log[k].line) : contains(line_log[k].out, span)

\* C5: if cleaning the cleaned text again inserts no marker, cleaning it again
\* changes nothing.
C5_IdempotentWithoutSecondMarker ==
    Cleaned =>
        LET second == clean_lines_again(cleaned)
        IN (\A k \in 1..Len(second) : ~second[k].marker) => clean_again(cleaned) = cleaned

\* C6: the scorer's counts, as lib.rs analyze_text returns them to its caller
\* or through process_file, satisfy 0 <= bad_count <= total_non_whitespace and
\* good_count + bad_count = total_non_whitespace, badness is bad_count /
\* total_non_whitespace within [0, 1], and 0 when there is no non-whitespace
\* character.
C6_ScoreWithinBounds ==
    (pc = "lib_analyze_text" \/ FileProcessed) =>
        /\ 0 <= result.bad_count
        /\ result.bad_count <= result.total_non_whitespace
        /\ result.good_count + result.bad_count = result.total_non_whitespace
        /\ result.total_non_whitespace = non_whitespace_count(text)
        /\ result.badness[2] > 0
        /\ 0 <= result.badness[1]
        /\ result.badness[1] <= result.badness[2]
        /\ result.total_non_whitespace > 0 =>
              result.badness = <<result.bad_count, result.total_non_whitespace>>
        /\ result.total_non_whitespace = 0 => result.badness[1] = 0

C6_Witness ==
    /\ pc = "lib_analyze_text"
    /\ result.bad_count > 0
    /\ result.good_count > 0
    /\ result.comment_markers > 0

\* C7: bad_count is max(0, originalNonWs - adjustedCleanedNonWs) where
\* adjustedCleanedNonWs is cleanedNonWs minus markerCount times the number of
\* non-whitespace characters of the marker (19), floored at zero.
C7_MarkerAdjustmentByNonWhitespace ==
    pc = "lib_analyze_text" =>
        LET marker_non_ws == non_whitespace_count(TEXT_MISSING_COMMENT)
            marker_count == matches_count(cleaned, TEXT_MISSING_COMMENT)
            adjusted == saturating_sub(non_whitespace_count(cleaned), marker_count * marker_non_ws)
        IN /\ marker_non_ws = 19
           /\ result.comment_markers = marker_count
           /\ result.bad_count = saturating_sub(non_whitespace_count(text), adjusted)

\* C8: a character of the "unusual" set belongs to no named script set, in
\* each of the three registries; in particular no curated French or Spanish
\* character is unusual.
C8_UnusualDisjointFromScripts ==
    /\ pc \in {"lookup", "lib_lookup"} =>
          /\ "unusual" \in member_of => member_of = {"unusual"}
          /\ (ch \in french_specific \cup spanish_specific) => "unusual" \notin member_of
    /\ pc = "main_lookup" =>
          ("UNUSUAL_CHARS" \in member_of => member_of = {"UNUSUAL_CHARS"})

\* LATIN SMALL LETTER N WITH TILDE lies in the Latin-1 Supplement range and is Spanish only.
C8_Witness ==
    /\ pc = "lookup"
    /\ ch = 241
    /\ ch \in 128..255
    /\ member_of = {"spanish"}

\* C9: whatever keys were requested, the allow-list an entry point builds
\* contains space, tab, newline and the punctuation, numbers and
\* common_symbols sets.
C9_AlwaysKeptCharsAllowed ==
    Cleaned => ({SP, TAB, LF} \cup always_included) \subseteq allowed

\* The keys of a list that the registry knows, in order.
RECURSIVE known_keys(_, _)
known_keys(registry, keys) ==
    IF keys = <<>> THEN <<>>
    ELSE (IF Head(keys) \in DOMAIN registry THEN <<Head(keys)>> ELSE <<>>)
            \o known_keys(registry, Tail(keys))

\* C10: unknown script keys are ignored by cleaning and analysis alike: the
\* outcome equals the outcome for the key list without its unknown keys.
C10_UnknownKeysIgnored ==
    /\ pc = "clean_text" =>
          cleaned = clean_text(text, known_keys(SCRIPT_SETS, scripts_to_keep))
    /\ pc = "analyze_text" =>
          result = analyze_text(text, known_keys(SCRIPT_SETS, scripts_to_keep),
                                calculate_specific_counts)
    /\ pc = "lib_clean_text" =>
          cleaned = lib_clean_text(text, known_keys(lib_SCRIPT_SETS, scripts_to_keep))
    /\ pc = "lib_analyze_text" =>
          result = lib_analyze_text(text, known_keys(lib_SCRIPT_SETS, scripts_to_keep))

\* A reported percentage <<a, b>> (a / b) equals 100 * count / total, and 0 when total is 0.
is_percentage_of(reported, count, total) ==
    IF total = 0 THEN reported[1] = 0
    ELSE reported[1] * total = 100 * count * reported[2]

\* C11: every reported per-script percentage is computed over the cleaned
\* text: 100 times the cleaned non-whitespace characters in the script's set
\* over the cleaned non-whitespace characters, 0 when there are none.
C11_PercentageOverCleanedText ==
    /\ pc = "lib_analyze_text" =>
          \A k \in keys_of(scripts_to_keep) \cap DOMAIN lib_SCRIPT_SETS :
              /\ k \in DOMAIN result.script_percentages
              /\ is_percentage_of(result.script_percentages[k],
                                  count_in(cleaned, lib_SCRIPT_SETS[k]),
                                  non_whitespace_count(cleaned))
    /\ pc = "analyze_text" =>
          \A k \in DOMAIN result.script_percentages :
              is_percentage_of(result.script_percentages[k],
                               count_in(cleaned, SCRIPT_SETS[k]),
                               non_whitespace_count(cleaned))

\* The 1-based line numbers of the contiguous run of pipe rows after line s.
run_of_rows(ls, s) ==
    {r \in (s + 1)..Len(ls) : \A q \in (s + 1)..r : TABLE_ROW_REGEX_is_match(ls[q])}

run_after(s) == run_of_rows(lines(text), s)

\* The positions of the returned issues with a line number and a description.
issues_at(r, description) ==
    {j \in 1..Len(result.issues) :
        result.issues[j].line_number = r /\ result.issues[j].description = description}

\* C12: for every table the scan found, with separator column count c, each
\* line of the run of pipe rows after the separator has exactly one row issue
\* (expected c, found its own count) when c > 0 and its count differs from c,
\* and none otherwise; row issues arise nowhere else.
C12_RowIssuePerInconsistentRow ==
    pc = "scanned" =>
        /\ \A k \in 1..Len(tables) :
              LET s == tables[k].separator
                  c == count_table_columns(lines(text)[s])
              IN \A r \in run_after(s) :
                    IF c > 0 /\ count_table_columns(lines(text)[r]) # c
                    THEN /\ Cardinality(issues_at(r, RowMismatch)) = 1
                         /\ \A j \in issues_at(r, RowMismatch) :
                               /\ result.issues[j].expected_columns = <<c>>
                               /\ result.issues[j].found_columns =
                                     <<count_table_columns(lines(text)[r])>>
                    ELSE issues_at(r, RowMismatch) = {}
        /\ \A j \in 1..Len(result.issues) :
              result.issues[j].description = RowMismatch =>
                  \E k \in 1..Len(tables) :
                      result.issues[j].line_number \in run_after(tables[k].separator)

\* "|a|a|", "|-|-|", then a one-column row (reported) and a two-column row (not).
C12_Witness ==
    /\ pc = "scanned"
    /\ Len(tables) = 1
    /\ tables[1].separator = 2
    /\ run_after(2) = {3, 4}
    /\ result.issues = <<TableIssue(3, RowMismatch, <<2>>, <<1>>)>>

\* The 1-based line s has no header row before it.
no_header_before(s) == s = 1 \/ ~TABLE_ROW_REGEX_is_match(lines(text)[s - 1])

\* C13: a separator the scan finds on the first line, or after a line that is
\* no pipe row, gets exactly one "separator without header row" issue at its
\* line number, without expected columns and with its own column count as
\* found; a separator with a header row gets none.
C13_SeparatorWithoutHeader ==
    pc = "scanned" =>
        \A k \in 1..Len(tables) :
            LET s == tables[k].separator
            IN IF no_header_before(s)
               THEN /\ Cardinality(issues_at(s, NoHeader)) = 1
                    /\ \A j \in issues_at(s, NoHeader) :
                          /\ result.issues[j].expected_columns = <<>>
                          /\ result.issues[j].found_columns =
                                <<count_table_columns(lines(text)[s])>>
                    /\ issues_at(s, HeaderMismatch) = {}
               ELSE issues_at(s, NoHeader) = {}

\* "|-|" on the first line, then a row: found = 1.
C13_Witness ==
    /\ pc = "scanned"
    /\ lines(text) = <<<<PIPE, DASH, PIPE>>, <<PIPE, 97, PIPE>>>>
    /\ result.issues = <<TableIssue(1, NoHeader, <<>>, <<1>>)>>

\* C14: when the line before a separator the scan finds is a pipe row, the
\* pair gets a "header and separator column count mismatch" issue, carrying
\* the header's and the separator's counts, exactly when the counts differ,
\* and no issue at all when they are equal.
C14_HeaderMismatchIffCountsDiffer ==
    pc = "scanned" =>
        \A k \in 1..Len(tables) :
            LET s == tables[k].separator
                c == count_table_columns(lines(text)[s])
            IN ~no_header_before(s) =>
                  LET h == count_table_columns(lines(text)[s - 1])
                  IN /\ tables[k].header = s - 1
                     /\ IF h # c
                        THEN /\ Cardinality(issues_at(s, HeaderMismatch)) = 1
                             /\ \A j \in issues_at(s, HeaderMismatch) :
                                   /\ result.issues[j].expected_columns = <<h>>
                                   /\ result.issues[j].found_columns = <<c>>
                        ELSE \A j \in 1..Len(result.issues) :
                                 result.issues[j].line_number = s =>
                                     result.issues[j].description = RowMismatch

\* A two-column header over a one-column separator.
C14_Witness ==
    /\ pc = "scanned"
    /\ lines(text) = <<<<PIPE, 97, PIPE, 97, PIPE>>, <<PIPE, DASH, PIPE>>>>
    /\ result.issues = <<TableIssue(2, HeaderMismatch, <<2>>, <<1>>)>>

\* The 1-based numbers of the lines that match the separator pattern.
separator_lines == {k \in 1..Len(lines(text)) : TABLE_SEPARATOR_REGEX_is_match(lines(text)[k])}

\* Among the first n lines, the separator lines that do not lie in the run of
\* pipe rows after an earlier such line.
RECURSIVE table_separators_among(_, _)
table_separators_among(ls, n) ==
    IF n = 0 THEN {}
    ELSE LET earlier == table_separators_among(ls, n - 1)
         IN IF /\ TABLE_SEPARATOR_REGEX_is_match(ls[n])
               /\ \A s \in earlier : n \notin run_of_rows(ls, s)
            THEN earlier \cup {n}
            ELSE earlier

table_separators(n) == table_separators_among(lines(text), n)

\* C15 as claimed: the total number of tables is the number of lines that
\* match the separator pattern.
C15_TotalIsSeparatorLineCount ==
    pc = "scanned" => result.total_tables = Cardinality(separator_lines)

\* C15 amended: the total number of tables is the number of lines that match
\* the separator pattern and are not consumed as a body row of an earlier
\* table (lines in the run of pipe rows after an earlier counted separator).
C15_TotalIsUnconsumedSeparatorCount ==
    pc = "scanned" =>
        /\ result.total_tables = Cardinality(table_separators(Len(lines(text))))
        /\ {tables[k].separator : k \in 1..Len(tables)} = table_separators(Len(lines(text)))
        /\ \A j, k \in 1..Len(tables) : j # k => tables[j].separator # tables[k].separator
        /\ Len(tables) = result.total_tables

\* Two separator lines in a row are one table.
C15_Witness ==
    /\ pc = "scanned"
    /\ lines(text) = <<<<PIPE, DASH, PIPE>>, <<PIPE, DASH, PIPE>>>>
    /\ result.total_tables = 1
    /\ tables[1].rows = {2}

\* C16: the issues are in ascending line-number order, and the header or
\* separator issue of a table comes before every row issue of that table.
C16_IssuesInScanOrder ==
    /\ \A j1, j2 \in 1..Len(issues) :
          j1 < j2 => issues[j1].line_number <= issues[j2].line_number
    /\ \A k \in 1..Len(tables) :
          \A j1, j2 \in 1..Len(issues) :
              (/\ issues[j1].line_number = tables[k].separator
               /\ issues[j1].description \in {HeaderMismatch, NoHeader}
               /\ issues[j2].line_number \in tables[k].rows
               /\ issues[j2].description = RowMismatch) => j1 < j2
    /\ pc = "scanned" => result.issues = issues

\* A separator issue, a row issue of the same table, and a second table's issue.
C16_Witness ==
    /\ pc = "scanned"
    /\ Len(result.issues) = 3
    /\ result.issues[1] = TableIssue(1, NoHeader, <<>>, <<2>>)
    /\ result.issues[2] = TableIssue(2, RowMismatch, <<2>>, <<1>>)
    /\ result.issues[3].line_number = 4

\* Files whose task wrote a counter after deciding `how`.
counted_as(how) == {f \in Files : outcome[f] = how /\ counted[f] >= 1}

\* The counting of the per-file tasks: each failed file (unreadable input,
\* operation error, uncreatable parent directory of its target, unwritable
\* output) adds exactly one to the error counter, each other file exactly
\* one to the processed counter, and no task is counted twice.
counters_follow_the_tasks ==
    /\ files_error_count = Cardinality(counted_as("error"))
    /\ files_processed_count = Cardinality(counted_as("ok"))
    /\ \A f \in Files : counted[f] <= 1

\* The call has returned to its caller, with a summary or with an error.
batch_returned == pc \in {"batch_done", "batch_failed"}

\* C17: in every batch variant, for every number of workers and every
\* interleaving of the per-file tasks, a failure on one file (unreadable
\* input, operation error, uncreatable output directory, unwritable output)
\* adds exactly one to the error counter and does not stop the batch: the
\* call never returns the failure as an error, and when it returns every file
\* has been counted exactly once and the summary carries the three counts
\* with files_processed + files_with_errors = total_files_found.
C17_EveryFileCountedOnce ==
    /\ counters_follow_the_tasks
    /\ (Counts /\ batch_returned) =>
          /\ pc = "batch_failed" => result.message # "Failed to create output directory"
          /\ pc = "batch_done" =>
                /\ \A f \in Files : step[f] = "done" /\ counted[f] = 1
                /\ {"files_processed", "files_with_errors", "total_files_found"}
                      \subseteq DOMAIN result
                /\ result.files_processed = files_processed_count
                /\ result.files_with_errors = files_error_count
                /\ result.total_files_found = md_files
                /\ result.files_processed + result.files_with_errors
                      = result.total_files_found

\* The case analysis of C18 for an output `out` of the original `line` whose
\* three passes gave `p`; form_a tells whether `out` has form (a).
three_forms(out, line, p, form_a) ==
    IF any_non_whitespace(p.processed_line_segment)
    THEN IF Len(p.current_line_removed_chars_buffer) >= 5
         THEN form_a
         ELSE out = p.processed_line_segment
    ELSE IF any_non_whitespace(line) /\ Len(p.current_line_removed_chars_buffer) >= 5
         THEN out = TEXT_MISSING_COMMENT
         ELSE out = p.processed_line_segment

\* Form (a) as claimed: the processed line, a single space, the marker.
forms_as_claimed(rec, p) ==
    three_forms(rec.out, rec.line, p,
                rec.out = p.processed_line_segment \o <<SP>> \o TEXT_MISSING_COMMENT)

\* C18 as claimed: the output line of every line is (a) the processed line, a
\* single space and the marker when the processed line is non-blank and at
\* least 5 non-whitespace characters were removed, (b) the processed line
\* unchanged when it is non-blank and fewer than 5 were removed, (c) when it
\* is blank, the marker alone if the original line had non-whitespace content
\* and at least 5 were removed, else the processed line unchanged.
C18_OutputHasOneOfThreeForms ==
    Cleaned =>
        \A k \in 1..Len(line_log) :
            forms_as_claimed(line_log[k],
                             process_line(line_log[k].line, allowed, unusual_of_call))

\* The logged line `rec` against the results t, g, u of the tag pass, the
\* glyph-token pass and the unusual-character pass: its removal count is the
\* sum of what the three removed, and its output is the marker decision on
\* the last pass's output with that count.
agrees_with_passes(rec, t, g, u) ==
    /\ rec.removed = non_whitespace_count(t.removed) + non_whitespace_count(g.removed)
                         + non_whitespace_count(u.removed)
    /\ rec.out = comment_insertion(rec.line, u.out,
                     non_whitespace_count(t.removed) + non_whitespace_count(g.removed)
                         + non_whitespace_count(u.removed)).out

\* The glyph-token pass runs on the tag pass's output, the unusual-character
\* pass on the glyph-token pass's output.
glyph_then_unusual(rec, t, g) ==
    agrees_with_passes(rec, t, g, unusual_removal(g.out, allowed, unusual_of_call))

tag_then_glyph_then_unusual(rec, t) ==
    glyph_then_unusual(rec, t, line_after_glyph_removal(t.out))

\* C19 as claimed: for every line, the processed line and its removal count
\* are the left-to-right composition of the tag pass on the original line, the
\* glyph-token pass on its output and the unusual-character pass on that
\* output, the count being the sum of the non-whitespace characters the three
\* passes removed.
C19_PassesComposedOnEveryLine ==
    Cleaned =>
        \A k \in 1..Len(line_log) :
            tag_then_glyph_then_unusual(line_log[k],
                                        line_after_tag_handling(line_log[k].line))

\* The characters C20 says the unusual-character pass keeps.
kept_by_unusual_pass(c) == ~(c \in unusual_of_call /\ c \notin allowed)

\* C20: on every line the passes run on, the unusual-character pass drops
\* exactly the characters of the glyph-token pass's output that are in the
\* unusual set and not in the allow-list, keeping the others in order; and
\* the cleaned text contains no character that is in the unusual set and
\* outside the allow-list.
C20_UnusualPassDropsExactlyDisallowed ==
    Cleaned =>
        /\ \A k \in 1..Len(line_log) :
              ~line_log[k].font =>
                 process_line(line_log[k].line, allowed, unusual_of_call).processed_line_segment
                    = SelectSeq(glyph_pass(tag_pass(line_log[k].line)).processed_line_segment,
                                kept_by_unusual_pass)
        /\ \A i \in 1..Len(cleaned) : kept_by_unusual_pass(cleaned[i])

\* "a", CYRILLIC ZHE, NO-BREAK SPACE cleaned with an allow-list that holds
\* neither of the two unusual characters: only "a" is left.
C20_Witness ==
    /\ Cleaned
    /\ text = <<97, 1046, 160>>
    /\ 1046 \in unusual_of_call \ allowed
    /\ 160 \in unusual_of_call \ allowed
    /\ cleaned = <<97>>

\* The cell between the pipes at positions p and q of a row holds dashes and
\* colons only, whitespace around them aside.
dash_cell(row, p, q) ==
    /\ trim(SubSeq(row, p + 1, q - 1)) # <<>>
    /\ \A j \in 1..Len(trim(SubSeq(row, p + 1, q - 1))) :
          trim(SubSeq(row, p + 1, q - 1))[j] \in {DASH, COLON}

\* A pipe-delimited row, given trimmed, in which every cell consists only of
\* dashes and colons.
dash_cells_only(row) ==
    /\ Len(row) >= 2
    /\ row[1] = PIPE
    /\ row[Len(row)] = PIPE
    /\ \A p, q \in 1..Len(row) :
          (/\ p < q
           /\ row[p] = PIPE
           /\ row[q] = PIPE
           /\ \A j \in (p + 1)..(q - 1) : row[j] # PIPE) => dash_cell(row, p, q)

\* C21: the scan treats a line as a separator if and only if it is a
\* pipe-delimited row in which every cell consists only of dashes and colons:
\* the separator of every table it counted is such a row, and every such row
\* of the document is the separator of a table or was consumed as a body row.
C21_SeparatorIffEveryCellDashes ==
    pc = "scanned" =>
        /\ \A k \in 1..Len(tables) : dash_cells_only(trim(lines(text)[tables[k].separator]))
        /\ \A n \in 1..Len(lines(text)) :
              dash_cells_only(trim(lines(text)[n])) =>
                 \E k \in 1..Len(tables) : n = tables[k].separator \/ n \in tables[k].rows

\* The lines the scan attributed to the table numbered k: its separator, the
\* row above it that served as its header, and its body rows.
lines_of_table(k) ==
    {tables[k].separator} \cup tables[k].rows \cup ({tables[k].header} \ {0})

\* C22: tables found by the scan do not overlap: no line is attributed to two
\* tables, so a separator or a body row of one table is never the header row
\* or the separator of a later one.
C22_TablesDoNotOverlap ==
    \A j, k \in 1..Len(tables) :
        j < k => lines_of_table(j) \cap lines_of_table(k) = {}

\* A row without one leading and one trailing pipe, whitespace around it aside.
stripped_of_outer_pipes(row) ==
    LET t == trim(row)
        a == IF t # <<>> /\ t[1] = PIPE THEN 2 ELSE 1
        b == IF Len(t) >= a /\ t[Len(t)] = PIPE THEN Len(t) - 1 ELSE Len(t)
    IN SubSeq(t, a, b)

\* The interior pipes of a row plus one; a row that is just "|" has none.
columns_between_pipes(row) ==
    IF trim(row) = <<PIPE>> THEN 0
    ELSE Cardinality({j \in 1..Len(stripped_of_outer_pipes(row)) :
                         stripped_of_outer_pipes(row)[j] = PIPE}) + 1

\* The row begins and ends with a pipe, whitespace around it aside.
pipe_delimited(row) ==
    trim(row) # <<>> /\ trim(row)[1] = PIPE /\ trim(row)[Len(trim(row))] = PIPE

\* The column count the claim gives the line numbered n, or, when
\* only_delimited, zero for a line that is not delimited by pipes.
columns_of_line(n, only_delimited) ==
    IF only_delimited /\ ~pipe_delimited(lines(text)[n]) THEN 0
    ELSE columns_between_pipes(lines(text)[n])

\* The counts the scan used agree with columns_of_line: the separator's, and
\* those reported in the issues for header, separator and body rows.
counts_used_agree(only_delimited) ==
    /\ pc = "in_table" =>
          separator_columns = columns_of_line(tables[Len(tables)].separator, only_delimited)
    /\ \A k \in 1..Len(issues) :
          /\ issues[k].found_columns = <<columns_of_line(issues[k].line_number, only_delimited)>>
          /\ issues[k].description = HeaderMismatch =>
                issues[k].expected_columns =
                    <<columns_of_line(issues[k].line_number - 1, only_delimited)>>

\* C23 (as stated): the column count used for header, separator and body rows
\* is the number of interior pipes plus one after stripping one leading and
\* one trailing pipe, for every line the scan treats as a separator or row.
C23_ColumnsByStrippingPipes == counts_used_agree(FALSE)

\* The tasks that are inside their Python::with_gil closure.
inside_with_gil == {f \in Files : gil = <<by[f]>> /\ step[f] \notin {"pending", "done"}}

\* The calling thread gives the interpreter lock up before the pool starts
\* and has it at every other time.
caller_releases_gil == (gil = <<MainThread>>) <=> (pc # "pool_running")

\* A worker holds the interpreter lock only around the per-file operation.
gil_only_around_operation == \A f \in inside_with_gil : step[f] = "operate"

\* A worker holds the interpreter lock from the per-file operation to the end
\* of its task: through the creation of the parent directory, the write and
\* the increment of a counter; it reads its file and counts a read failure
\* without the lock.
gil_from_operation_to_count ==
    \A f \in Files :
       /\ step[f] \in {"operate", "mkdir", "write", "release_gil"} => f \in inside_with_gil
       /\ step[f] \in {"read", "want_gil"} => f \notin inside_with_gil
       /\ step[f] \in {"count_processed", "locked_processed"} => f \in inside_with_gil

\* A counter mutex is held by one worker at a time, only between the two
\* halves of one increment.
mutex_for_one_increment ==
    \A m \in DOMAIN holder :
       /\ Cardinality(holder[m]) <= 1
       /\ \A w \in holder[m] :
             \E f \in Files : by[f] = w /\ step[f] \in {"locked_processed", "locked_error"}

\* Every discovered file has been handled and the summary produced, the
\* interpreter lock back with the calling thread.
batch_completed ==
    /\ pc = "batch_done"
    /\ \A f \in Files : step[f] = "done"
    /\ "files_processed" \in DOMAIN result
    /\ gil = <<MainThread>>

\* The call returned an error before any file was taken.
batch_aborted ==
    /\ pc = "batch_failed"
    /\ \A f \in Files : step[f] = "pending"
    /\ "error" \in DOMAIN result
    /\ gil = <<MainThread>>

C25_CleanedTextIndependentOfScripts ==
    /\ pc = "clean_text" =>
          \A other \in KeyLists : clean_text(text, other) = cleaned
    /\ pc = "lib_clean_text" =>
          \A other \in KeyLists : lib_clean_text(text, other) = cleaned

\* The non-whitespace characters of the processed line, before any marker is
\* added: those pushed for the line less those of the marker pushed with it.
processed_non_whitespace(r) ==
    non_whitespace_count(r.out)
        - (IF r.marker THEN non_whitespace_count(TEXT_MISSING_COMMENT) ELSE 0)

\* The non-whitespace characters of the original line are those of the
\* processed line plus the line's removal count.
accounted(r) == non_whitespace_count(r.line) = processed_non_whitespace(r) + r.removed

\* C26 (as stated): removal accounting is conservative on every line: no
\* non-whitespace character is dropped without being counted and none is
\* counted twice.
C26_RemovalAccountedOnEveryLine ==
    Cleaned => \A k \in 1..Len(line_log) : accounted(line_log[k])

\* C27: after cleaning, no glyph artifact remains: the cleaned text contains
\* no whitespace-delimited token containing "glyph", that is, it does not
\* contain "glyph".
C27_NoGlyphTokenRemains ==
    pc \in {"clean_text", "lib_clean_text"} => ~contains(cleaned, GlyphStr)

\* The characters p..q of a line are a `<...>` span: a '<' followed later by
\* a '>' with no '>' in between.
tag_span(line, p, q) ==
    /\ p < q
    /\ line[p] = LT
    /\ line[q] = GT
    /\ \A j \in p..(q - 1) : line[j] # GT

\* The span p..q is an HTML comment: it begins with "<!--" and ends with "-->".
comment_span(line, p, q) ==
    /\ q - p + 1 >= Len(CommentOpen) + Len(CommentClose)
    /\ SubSeq(line, p, p + Len(CommentOpen) - 1) = CommentOpen
    /\ SubSeq(line, q - Len(CommentClose) + 1, q) = CommentClose

\* The character at i lies inside a `<...>` span that is no HTML comment.
inside_non_comment_span(line, i) ==
    \E p \in 1..i, q \in i..Len(line) :
        tag_span(line, p, q) /\ ~comment_span(line, p, q)

\* The character at i lies inside a whitespace-delimited token containing "glyph".
inside_glyph_token(line, i) ==
    \E p \in 1..i, q \in i..Len(line) :
        /\ \A j \in p..q : ~is_whitespace(line[j])
        /\ contains(SubSeq(line, p, q), GlyphStr)

\* The positions of a line whose characters cleaning has to keep: the
\* non-whitespace characters outside non-comment spans and glyph tokens that
\* are not disallowed unusual characters.
positions_to_keep(line) ==
    {i \in 1..Len(line) :
        /\ ~is_whitespace(line[i])
        /\ ~inside_non_comment_span(line, i)
        /\ ~inside_glyph_token(line, i)
        /\ ~(line[i] \in unusual_of_call /\ line[i] \notin allowed)}

\* The characters at the positions of keep from i on, in their order.
RECURSIVE characters_at(_, _, _)
characters_at(line, keep, i) ==
    IF i > Len(line) THEN <<>>
    ELSE (IF i \in keep THEN <<line[i]>> ELSE <<>>) \o characters_at(line, keep, i + 1)

\* The characters of s appear in t in their order.
RECURSIVE appears_in_order(_, _)
appears_in_order(s, t) ==
    IF s = <<>> THEN TRUE
    ELSE IF t = <<>> THEN FALSE
    ELSE IF Head(s) = Head(t) THEN appears_in_order(Tail(s), Tail(t))
    ELSE appears_in_order(s, Tail(t))

\* C28: cleaning removes only artifacts: every character of a line that
\* cleaning has to keep appears in the cleaned line, in its original order,
\* and a line is replaced by the marker alone only if it has no such character.
C28_CleaningRemovesOnlyArtifacts ==
    pc \in {"clean_text", "lib_clean_text"} =>
        \A k \in 1..Len(line_log) :
            /\ appears_in_order(
                   characters_at(line_log[k].line, positions_to_keep(line_log[k].line), 1),
                   line_log[k].out)
            /\ line_log[k].out = TEXT_MISSING_COMMENT =>
                   positions_to_keep(line_log[k].line) = {}

\* C29: if cleaning changes nothing, the cleaned text being the original
\* text, the scorer reports bad_count = 0 and badness = 0, also for a text
\* that already contains the missing-text marker.
C29_UnchangedTextScoresZero ==
    (pc = "lib_analyze_text" /\ cleaned = text) =>
        /\ result.bad_count = 0
        /\ result.badness[1] = 0

\* C30: after the cleaning of a line no non-comment tag remains: every
\* `<...>` span of the cleaned line is an HTML comment beginning with "<!--"
\* and ending with "-->".
C30_NoNonCommentTagRemains ==
    pc \in {"clean_text", "lib_clean_text"} =>
        \A k \in 1..Len(line_log) :
            \A p, q \in 1..Len(line_log[k].out) :
                tag_span(line_log[k].out, p, q) => comment_span(line_log[k].out, p, q)

====
